---- MODULE Spec2Model ----
(***************************************************************************)
(* EnhancedOpenAPIMonitor (enhanced_openapi_monitor.py): one monitoring    *)
(* session, from construction through the connectivity check, the round    *)
(* loop of concurrent probes, to generate_reports.                         *)
(*                                                                         *)
(* Time is time.time() counted in whole milliseconds.  Endpoints are named *)
(* by their position in self.endpoints.                                    *)
(***************************************************************************)
EXTENDS Integers, Sequences, FiniteSets, TLC

VARIABLES
    pc,               \* position of monitor_responses
    running,          \* self.running
    now,              \* time.time()
    duration,         \* self.duration
    sample_interval,  \* self.sample_interval
    start_time,       \* self.start_time
    end_time,         \* end_time (local of monitor_responses)
    connectivity,     \* connectivity (result of test_endpoint_connectivity), by position
    active_endpoints, \* active_endpoints (local)
    tasks,            \* tasks (local): the coroutines created in this round
    inflight,         \* the probes handed to asyncio.gather, one per task
    idx,              \* loop index of the for-loop the session is in
    responses,        \* self.responses
    log,              \* openapi_responses.jsonl: what each f.write appended
    stats,            \* self.stats
    reports,          \* number of calls of generate_reports so far
    summary,          \* response_summary.json as last written
    csv,              \* status_code_distribution.csv as last written
    endpoint_report,  \* endpoint_performance.json as last written
    round_base,       \* history: len(self.responses) and the log's length when the round began
    returned,         \* history: every value make_sample_request has returned
    probed            \* history: what the network answered to each GET of the connectivity check

vars == <<pc, running, now, duration, sample_interval, start_time, end_time,
          connectivity, active_endpoints, tasks, inflight, idx, responses,
          log, stats, reports, summary, csv, endpoint_report, round_base,
          returned, probed>>

\* the constructor's arguments
config == <<duration, sample_interval>>

\* what generate_reports writes
outputs == <<reports, summary, csv, endpoint_report>>

----------------------------------------------------------------------------
(* Bounds of the model *)

\* largest --duration drawn
MaxDuration == 2

\* milliseconds per second: durations are given in seconds, latencies in ms
MsPerSecond == 1000

\* the clock stops one second after the longest deadline
MaxTime == (MaxDuration + 1) * MsPerSecond

\* the values of --sample-interval drawn (default 2)
SampleIntervals == {1, 2}

\* self.endpoints, cut to its first two entries
endpoints == <<1, 2>>

\* at most this many endpoints are sampled per round
SampleCap == 5

----------------------------------------------------------------------------
(* Helpers *)

Min2(a, b) == IF a <= b THEN a ELSE b

\* the divisor taken as it is, without the floor of 1
SecondOf(a, b) == b

Max2(a, b) == IF a >= b THEN a ELSE b

\* an empty dict
EmptyDict == [k \in {} |-> 0]

\* d[k] += 1 on a defaultdict(int)
IncrDict(d, k) ==
    [x \in (DOMAIN d) \cup {k} |->
        IF x = k THEN (IF k \in DOMAIN d THEN d[k] ELSE 0) + 1 ELSE d[x]]

\* a / b as Python computes it: the exact quotient, or ZeroDivisionError
Ratio(a, b) == [num |-> a, den |-> b, zero_division |-> (b = 0)]

----------------------------------------------------------------------------
(* What the network can answer to one probe *)

RespOutcome(s, b) == [kind |-> "response", status |-> s, body |-> b, desc |-> ""]

TimeoutOutcome == [kind |-> "timeout", status |-> 0, body |-> "", desc |-> ""]

ErrorOutcome(d) == [kind |-> "error", status |-> 0, body |-> "", desc |-> d]

\* the HTTP statuses drawn where the status matters
HttpStatuses == {200, 204, 302, 399, 400, 404, 408, 500}

\* the outcomes drawn in a session: one of each class
Outcomes == {RespOutcome(200, "json"), TimeoutOutcome, ErrorOutcome("refused")}

\* the outcomes drawn in the connectivity check of a session: an answer, and
\* a failure
ConnectivityOutcomes == {RespOutcome(200, "json"), ErrorOutcome("refused")}

----------------------------------------------------------------------------
(* make_sample_request *)

\* latency = (request_end - request_start) * 1000, the times being in seconds
LatencyMs(t0, t1) == ((t1 - t0) * 1000) \div MsPerSecond

\* body_type of a response that was received
BodyType(o) == IF o.body = "unreadable" THEN "error" ELSE o.body

ReasonOf(s) ==
    CASE s = 200 -> "OK"
      [] s = 204 -> "No Content"
      [] s = 302 -> "Found"
      [] s = 399 -> ""
      [] s = 400 -> "Bad Request"
      [] s = 404 -> "Not Found"
      [] s = 408 -> "Request Timeout"
      [] s = 500 -> "Internal Server Error"
      [] OTHER -> ""

\* response_data
ResponseData(ep, o, t0, t1) ==
    [tag |-> "dict", endpoint |-> ep, status_code |-> o.status,
     status_text |-> ReasonOf(o.status), body_type |-> BodyType(o),
     latency_ms |-> LatencyMs(t0, t1), request_start_time |-> t0,
     has_error |-> FALSE, error |-> ""]

\* the timeout handler giving the connection-error sentinel
TimeoutDataStatusZero(ep, o, t0, t1) ==
    [tag |-> "dict", endpoint |-> ep, status_code |-> 0,
     status_text |-> "Request Timeout", body_type |-> "error",
     latency_ms |-> LatencyMs(t0, t1), request_start_time |-> t0,
     has_error |-> TRUE, error |-> "timeout"]

\* error_data of the asyncio.TimeoutError handler
TimeoutData(ep, o, t0, t1) ==
    [tag |-> "dict", endpoint |-> ep, status_code |-> 408,
     status_text |-> "Request Timeout", body_type |-> "error",
     latency_ms |-> LatencyMs(t0, t1), request_start_time |-> t0,
     has_error |-> TRUE, error |-> "timeout"]

\* error_data of the Exception handler
ErrorData(ep, o, t0, t1) ==
    [tag |-> "dict", endpoint |-> ep, status_code |-> 0,
     status_text |-> "Connection Error", body_type |-> "error",
     latency_ms |-> LatencyMs(t0, t1), request_start_time |-> t0,
     has_error |-> TRUE, error |-> o.desc]

\* the value make_sample_request returns
SampleRecord(ep, o, t0, t1) ==
    CASE o.kind = "response" -> ResponseData(ep, o, t0, t1)
      [] o.kind = "timeout"  -> TimeoutData(ep, o, t0, t1)
      [] OTHER               -> ErrorData(ep, o, t0, t1)

\* the success test taking the redirections for failures
IsSuccessBelow300(s) == 200 <= s /\ s < 300

\* 200 <= response.status < 400
IsSuccess(s) == 200 <= s /\ s < 400

\* the handler's update without the count of the request
FailureStatsNotCounted(st, text) ==
    [st EXCEPT !.failed_requests = @ + 1,
               !.errors = Append(@, text)]

\* the handler's update without the count of the failure
FailureStatsNoFailedCount(st, text) ==
    [st EXCEPT !.total_requests = @ + 1,
               !.errors = Append(@, text)]

\* the handler's update without the entry of the error list
FailureStatsNoErrorEntry(st, text) ==
    [st EXCEPT !.total_requests = @ + 1,
               !.failed_requests = @ + 1]

\* self.stats after the update of either exception handler, text being the
\* description appended to self.stats['errors']
FailureStats(st, text) ==
    [st EXCEPT !.total_requests = @ + 1,
               !.failed_requests = @ + 1,
               !.errors = Append(@, text)]

\* self.stats after make_sample_request
StatsAfter(st, o, t0, t1) ==
    CASE o.kind = "response" ->
            [st EXCEPT !.total_requests = @ + 1,
                       !.status_codes = IncrDict(@, o.status),
                       !.response_times = Append(@, LatencyMs(t0, t1)),
                       !.successful_requests =
                            IF IsSuccess(o.status) THEN @ + 1 ELSE @,
                       !.failed_requests =
                            IF IsSuccess(o.status) THEN @ ELSE @ + 1]
      [] o.kind = "timeout" -> FailureStats(st, "timeout")
      [] OTHER -> FailureStats(st, o.desc)

\* self.stats as __init__ leaves it
InitStats ==
    [total_requests |-> 0, successful_requests |-> 0, failed_requests |-> 0,
     status_codes |-> EmptyDict, response_times |-> <<>>, errors |-> <<>>]

----------------------------------------------------------------------------
(* generate_reports *)

\* sorted(s): entry i of s goes to the place given by the number of entries
\* below it, and of equal entries not after it
Sorted(s) ==
    LET place == [i \in DOMAIN s |->
                    Cardinality({j \in DOMAIN s :
                                    s[j] < s[i] \/ (s[j] = s[i] /\ j <= i)})]
    IN  [k \in DOMAIN s |-> s[CHOOSE i \in DOMAIN s : place[i] = k]]

\* sorted(d.items()), the keys only
RECURSIVE SortedKeys(_)
SortedKeys(S) ==
    IF S = {} THEN <<>>
    ELSE LET m == CHOOSE x \in S : \A y \in S : x <= y
         IN  <<m>> \o SortedKeys(S \ {m})

\* s[lo] + ... + s[hi]
RECURSIVE SumRange(_, _, _)
SumRange(s, lo, hi) ==
    IF lo > hi THEN 0
    ELSE IF lo = hi THEN s[lo]
    ELSE SumRange(s, lo, (lo + hi) \div 2) + SumRange(s, (lo + hi) \div 2 + 1, hi)

\* sum(s)
SumSeq(s) == SumRange(s, 1, Len(s))

RECURSIVE SumDict(_)
SumDict(d) ==
    IF DOMAIN d = {} THEN 0
    ELSE LET k == CHOOSE x \in DOMAIN d : TRUE
         IN  d[k] + SumDict([x \in (DOMAIN d) \ {k} |-> d[x]])

\* min(times), max(times)
MinOf(s) == CHOOSE x \in {s[i] : i \in DOMAIN s} : \A i \in DOMAIN s : x <= s[i]

MaxOf(s) == CHOOSE x \in {s[i] : i \in DOMAIN s} : \A i \in DOMAIN s : x >= s[i]

\* len(times) // 2, a 0-based index
MedianIndex(n) == n \div 2

\* the percentile index taken on len(times) - 1
PctIndexShort(n, pct) == ((n - 1) * pct) \div 100

\* int(len(times) * 0.95), int(len(times) * 0.99), 0-based; pct is 95 or 99.
\* The float product truncates to floor(n * pct / 100) for every n up to
\* 2,000,000 (checked by running the expression).
PctIndex(n, pct) == (n * pct) \div 100

\* times[i] of a Python list; IndexError when i is out of range
ListAt(s, i) ==
    IF i >= 0 /\ i < Len(s) THEN [index_error |-> FALSE, value |-> s[i + 1]]
    ELSE [index_error |-> TRUE, value |-> 0]

\* the list used unsorted
TimesUnsorted(response_times) == response_times

\* times = sorted(self.stats['response_times'])
SortedTimes(response_times) == Sorted(response_times)

LatencyKeys == {"min_ms", "max_ms", "mean_ms", "median_ms", "p95_ms", "p99_ms"}

\* latency_stats
LatencyStats(response_times) ==
    LET times == SortedTimes(response_times)
        n == Len(times)
    IN  [k \in (IF response_times # <<>> THEN LatencyKeys ELSE {}) |->
            CASE k = "min_ms"    -> [index_error |-> FALSE, value |-> MinOf(times)]
              [] k = "max_ms"    -> [index_error |-> FALSE, value |-> MaxOf(times)]
              [] k = "mean_ms"   -> [index_error |-> FALSE, value |-> Ratio(SumSeq(times), n)]
              [] k = "median_ms" -> ListAt(times, MedianIndex(n))
              [] k = "p95_ms"    -> ListAt(times, PctIndex(n, 95))
              [] OTHER           -> ListAt(times, PctIndex(n, 99))]

\* set(self.stats['errors'])
ErrorSet(errors) == {errors[i] : i \in DOMAIN errors}

\* the error summary counting every failed request as an error
ErrorSummaryOfFailed(st) ==
    [total_errors |-> st.failed_requests,
     unique_errors |-> Cardinality(ErrorSet(st.errors)),
     common_errors |-> ErrorSet(st.errors)]

\* summary['error_summary']
ErrorSummary(st) ==
    [total_errors |-> Len(st.errors),
     unique_errors |-> Cardinality(ErrorSet(st.errors)),
     common_errors |-> ErrorSet(st.errors)]

\* summary
Summary(st, resps, t_start, dur, interval) ==
    [collection_info |->
        [start_time |-> t_start, duration_seconds |-> dur,
         total_responses |-> Len(resps), endpoints_monitored |-> endpoints,
         sample_interval_seconds |-> interval],
     statistics |->
        [total_requests |-> st.total_requests,
         successful_requests |-> st.successful_requests,
         failed_requests |-> st.failed_requests,
         success_rate_percent |->
            Ratio(st.successful_requests * 100, Max2(1, st.total_requests))],
     status_code_distribution |-> st.status_codes,
     latency_statistics |-> LatencyStats(st.response_times),
     error_summary |-> ErrorSummary(st)]

\* the rows of status_code_distribution.csv, after the header
CsvRows(st) ==
    LET total == SumDict(st.status_codes)
        keys == SortedKeys(DOMAIN st.status_codes)
    IN  [i \in DOMAIN keys |->
            [status_code |-> keys[i], count |-> st.status_codes[keys[i]],
             percentage |-> IF total > 0
                            THEN Ratio(st.status_codes[keys[i]] * 100, total)
                            ELSE Ratio(0, 1)]]

\* the records of one endpoint, in order
RecordsOf(resps, ep) == SelectSeq(resps, LAMBDA r : r.endpoint = ep)

\* the status_codes of one endpoint: one count per status seen
CountCodes(rs) ==
    [c \in {rs[i].status_code : i \in DOMAIN rs} |->
        Cardinality({i \in DOMAIN rs : rs[i].status_code = c})]

\* the avg_latency of one endpoint before the division
SumLatency(rs) == SumSeq([i \in DOMAIN rs |-> rs[i].latency_ms])

\* dict(endpoint_stats)
EndpointStats(resps) ==
    [ep \in {resps[i].endpoint : i \in DOMAIN resps} |->
        LET rs == RecordsOf(resps, ep)
        IN  [count |-> Len(rs),
             avg_latency |-> Ratio(SumLatency(rs), Len(rs)),
             status_codes |-> CountCodes(rs)]]

\* the marker of a file not written yet
NotWritten == [written |-> FALSE]

\* the write without its record separator
LogLineNoNewline(r) == [json |-> r, newline |-> FALSE]

\* json.dumps(response_data) + '\n', the argument of one f.write
LogLine(r) == [json |-> r, newline |-> TRUE]

\* every configured endpoint taken for active, whatever the check found
ActiveOfAll(conn) == endpoints

\* [ep for ep, connected in connectivity.items() if connected], the keys of
\* connectivity being eps in their order of insertion
ActiveIn(eps, conn) ==
    LET F[i \in 0..Len(eps)] ==
            IF i = 0 THEN <<>>
            ELSE IF conn[i] THEN Append(F[i - 1], eps[i]) ELSE F[i - 1]
    IN  F[Len(eps)]

ActiveOf(conn) == ActiveIn(endpoints, conn)

\* the round sampled from all of active_endpoints
SampleUncapped(active) == active

\* the round sampled from self.endpoints instead of active_endpoints
SampleAllEndpoints(active) == SubSeq(endpoints, 1, Min2(SampleCap, Len(endpoints)))

\* active_endpoints[:min(5, len(active_endpoints))]
SampleEndpoints(active) == SubSeq(active, 1, Min2(SampleCap, Len(active)))

\* the while test with the stop flag left out
LoopCondNoStop(t, t_end, run) == t < t_end

\* the while test with the deadline left out
LoopCondNoDeadline(t, t_end, run) == run

\* the test of the while loop
LoopCond(t, t_end, run) == t < t_end /\ run

\* the filter keeping only the records without an error field
IsDictWithoutError(r) == r.tag = "dict" /\ ~r.has_error

\* isinstance(response_data, dict)
IsDict(r) == r.tag = "dict"

\* a probe handed to gather and not settled yet
Pending(ep, t) ==
    [endpoint |-> ep, request_start |-> t, settled |-> FALSE,
     outcome |-> [kind |-> "none", status |-> 0, body |-> "", desc |-> ""],
     result |-> [tag |-> "pending"]]

\* an endpoint taken for reachable only when it answers below 400
ReachableOnSuccess(o) == o.kind = "response" /\ o.status < 400

\* connectivity[endpoint] after one GET of test_endpoint_connectivity
Reachable(o) == o.kind = "response"

\* the latency list sorted in place (list.sort() instead of sorted())
StatsSortedInPlace(st) == [st EXCEPT !.response_times = Sorted(@)]

\* what generate_reports leaves in self.stats and self.responses: it reads
\* them (sorted() copies the list) and writes neither
StatsAfterReport(st) == st

ResponsesAfterReport(resps) == resps

----------------------------------------------------------------------------
(* The session *)

Init ==
    /\ pc = "start"
    /\ running = TRUE
    /\ now = 0
    /\ duration \in 0..MaxDuration
    /\ sample_interval \in SampleIntervals
    /\ start_time = -1
    /\ end_time = -1
    /\ connectivity = <<>>
    /\ active_endpoints = <<>>
    /\ tasks = <<>>
    /\ inflight = <<>>
    /\ idx = 0
    /\ responses = <<>>
    /\ log = <<>>
    /\ stats = InitStats
    /\ reports = 0
    /\ summary = NotWritten
    /\ csv = NotWritten
    /\ endpoint_report = NotWritten
    /\ round_base = [responses |-> 0, log |-> 0]
    /\ returned = {}
    /\ probed = <<>>

\* signal_handler, run by the interpreter between two steps of the session on
\* SIGINT or SIGTERM; it only clears the flag, and interrupts neither a write
\* nor a sleep
Signal ==
    /\ pc \notin {"done", "exit"}
    /\ running
    /\ running' = FALSE
    /\ UNCHANGED <<pc, now, config, start_time, end_time,
                   connectivity, active_endpoints, tasks, inflight, idx,
                   responses, log, stats, outputs,
                   round_base, returned, probed>>

\* a second passes while the session waits for the network: during a GET of
\* the connectivity check, or while probes are in flight
Tick ==
    /\ pc \in {"connectivity", "await"}
    /\ now < MaxTime
    /\ now' = now + MsPerSecond
    /\ UNCHANGED <<pc, running, config, start_time, end_time,
                   connectivity, active_endpoints, tasks, inflight, idx,
                   responses, log, stats, outputs,
                   round_base, returned, probed>>

\* monitor_responses: self.start_time = time.time()
Start ==
    /\ pc = "start"
    /\ start_time' = now
    /\ pc' = "connectivity"
    /\ idx' = 1
    /\ UNCHANGED <<running, now, config, end_time,
                   connectivity, active_endpoints, tasks, inflight,
                   responses, log, stats, outputs,
                   round_base, returned, probed>>

\* test_endpoint_connectivity: one iteration of its for-loop, the network
\* having answered o to the GET
TestEndpointWith(o) ==
    /\ pc = "connectivity"
    /\ idx <= Len(endpoints)
    /\ connectivity' = Append(connectivity, Reachable(o))
    /\ probed' = Append(probed, o)
    /\ idx' = idx + 1
    /\ UNCHANGED <<pc, running, now, config, start_time,
                   end_time, active_endpoints, tasks, inflight,
                   responses, log, stats, outputs,
                   round_base, returned>>

TestEndpoint == \E o \in ConnectivityOutcomes : TestEndpointWith(o)

\* monitor_responses: active_endpoints, the early return, end_time
SelectActive ==
    /\ pc = "connectivity"
    /\ idx > Len(endpoints)
    /\ active_endpoints' = ActiveOf(connectivity)
    /\ IF ActiveOf(connectivity) = <<>>
       THEN pc' = "done" /\ UNCHANGED end_time
       ELSE pc' = "loop" /\ end_time' = start_time + duration * MsPerSecond
    /\ UNCHANGED <<running, now, config, start_time,
                   connectivity, tasks, inflight, idx,
                   responses, log, stats, outputs,
                   round_base, returned, probed>>

\* the while test
LoopTest ==
    /\ pc = "loop"
    /\ IF LoopCond(now, end_time, running)
       THEN /\ pc' = "dispatch"
            /\ tasks' = <<>>
            /\ idx' = 1
            /\ round_base' = [responses |-> Len(responses), log |-> Len(log)]
       ELSE /\ pc' = "report"
            /\ UNCHANGED <<tasks, idx, round_base>>
    /\ UNCHANGED <<running, now, config, start_time, end_time,
                   connectivity, active_endpoints, inflight,
                   responses, log, stats, outputs, returned, probed>>

\* one iteration of "for endpoint in sample_endpoints", or its end
CreateTask ==
    /\ pc = "dispatch"
    /\ IF idx <= Len(SampleEndpoints(active_endpoints)) /\ running
       THEN /\ tasks' = Append(tasks, SampleEndpoints(active_endpoints)[idx])
            /\ idx' = idx + 1
            /\ pc' = pc
       ELSE /\ pc' = "gather"
            /\ UNCHANGED <<tasks, idx>>
    /\ UNCHANGED <<running, now, config, start_time, end_time,
                   connectivity, active_endpoints, inflight,
                   responses, log, stats, outputs,
                   round_base, returned, probed>>

\* "if tasks:" and the call of asyncio.gather, which starts every coroutine
Gather ==
    /\ pc = "gather"
    /\ IF tasks # <<>>
       THEN /\ inflight' = [i \in DOMAIN tasks |-> Pending(tasks[i], now)]
            /\ pc' = "await"
       ELSE /\ pc' = "sleep"
            /\ UNCHANGED inflight
    /\ UNCHANGED <<running, now, config, start_time, end_time,
                   connectivity, active_endpoints, tasks, idx,
                   responses, log, stats, outputs,
                   round_base, returned, probed>>

\* make_sample_request of probe i returns, the network having answered o
SettleWith(i, o) ==
    /\ pc = "await"
    /\ i \in DOMAIN inflight
    /\ ~inflight[i].settled
    /\ inflight' =
          [inflight EXCEPT ![i] =
              [@ EXCEPT !.settled = TRUE,
                        !.outcome = o,
                        !.result = SampleRecord(inflight[i].endpoint, o,
                                                inflight[i].request_start, now)]]
    /\ stats' = StatsAfter(stats, o, inflight[i].request_start, now)
    /\ returned' = returned \cup {SampleRecord(inflight[i].endpoint, o,
                                                inflight[i].request_start, now)}
    /\ UNCHANGED <<pc, running, now, config, start_time,
                   end_time, connectivity, active_endpoints, tasks, idx,
                   responses, log, outputs, round_base, probed>>

Settle == \E i \in DOMAIN inflight : \E o \in Outcomes : SettleWith(i, o)

\* the probes started and not awaited
NotAwaited(fl) == TRUE

\* a joint wait that returns with the first probe to settle
AnySettled(fl) == \E i \in DOMAIN fl : fl[i].settled

\* what asyncio.gather(*tasks, return_exceptions=True) waits for: every
\* awaitable is done
AllSettled(fl) == \A i \in DOMAIN fl : fl[i].settled

\* asyncio.gather returns once every probe has settled
GatherReturn ==
    /\ pc = "await"
    /\ AllSettled(inflight)
    /\ pc' = "consume"
    /\ idx' = 1
    /\ UNCHANGED <<running, now, config, start_time, end_time,
                   connectivity, active_endpoints, tasks, inflight,
                   responses, log, stats, outputs,
                   round_base, returned, probed>>

\* one iteration of "for response_data in responses", or its end; the file
\* is opened, written with one f.write and closed within the iteration
Consume ==
    /\ pc = "consume"
    /\ IF idx <= Len(inflight)
       THEN /\ IF IsDict(inflight[idx].result)
               THEN /\ responses' = Append(responses, inflight[idx].result)
                    /\ log' = Append(log, LogLine(inflight[idx].result))
               ELSE UNCHANGED <<responses, log>>
            /\ idx' = idx + 1
            /\ pc' = pc
       ELSE /\ pc' = "sleep"
            /\ UNCHANGED <<responses, log, idx>>
    /\ UNCHANGED <<running, now, config, start_time, end_time,
                   connectivity, active_endpoints, tasks, inflight,
                   stats, outputs,
                   round_base, returned, probed>>

\* "if self.running:" before the sleep
SleepTest ==
    /\ pc = "sleep"
    /\ pc' = IF running THEN "sleeping" ELSE "loop"
    /\ UNCHANGED <<running, now, config, start_time, end_time,
                   connectivity, active_endpoints, tasks, inflight, idx,
                   responses, log, stats, outputs,
                   round_base, returned, probed>>

\* asyncio.sleep(self.sample_interval) returns
Wake ==
    /\ pc = "sleeping"
    /\ now' = Min2(now + sample_interval * MsPerSecond, MaxTime)
    /\ pc' = "loop"
    /\ UNCHANGED <<running, config, start_time, end_time,
                   connectivity, active_endpoints, tasks, inflight, idx,
                   responses, log, stats, outputs,
                   round_base, returned, probed>>

\* the effect of one call of generate_reports
CallGenerateReports ==
    /\ reports' = reports + 1
    /\ summary' = [written |-> TRUE,
                   doc |-> Summary(stats, responses, start_time, duration,
                                   sample_interval)]
    /\ csv' = [written |-> TRUE, rows |-> CsvRows(stats)]
    /\ endpoint_report' = [written |-> TRUE, doc |-> EndpointStats(responses)]
    /\ stats' = StatsAfterReport(stats)
    /\ responses' = ResponsesAfterReport(responses)

\* monitor_responses: self.generate_reports(), then it returns
GenerateReports ==
    /\ pc = "report"
    /\ CallGenerateReports
    /\ pc' = "done"
    /\ UNCHANGED <<running, now, config, start_time, end_time,
                   connectivity, active_endpoints, tasks, inflight, idx, log,
                   round_base, returned, probed>>

Monitor ==
    \/ Start
    \/ TestEndpoint
    \/ SelectActive
    \/ LoopTest
    \/ CreateTask
    \/ Gather
    \/ Settle
    \/ GatherReturn
    \/ Consume
    \/ SleepTest
    \/ Wake
    \/ GenerateReports

Next == Monitor \/ Signal \/ Tick

Spec == Init /\ [][Next]_vars

\* The event loop keeps running monitor_responses: every probe settles (the
\* ClientSession's total timeout ends it at the latest) and every sleep returns.
FairSpec == Spec /\ WF_vars(Monitor)

----------------------------------------------------------------------------
(* The session on a file system that can fail: open(responses_file, 'a')    *)
(* may raise OSError (directory removed, disk full, permission lost).       *)

\* an iteration of "for response_data in responses" in which open() raises:
\* the record is in self.responses already; the exception leaves the loops,
\* the ClientSession block and monitor_responses, and main's "except
\* Exception" logs it and calls sys.exit(1)
WriteFails ==
    /\ pc = "consume"
    /\ idx <= Len(inflight)
    /\ IsDict(inflight[idx].result)
    /\ responses' = Append(responses, inflight[idx].result)
    /\ pc' = "exit"
    /\ UNCHANGED <<running, now, config, start_time, end_time,
                   connectivity, active_endpoints, tasks, inflight, idx,
                   log, stats, outputs,
                   round_base, returned, probed>>

NextFault == Next \/ WriteFails

SpecFault == Init /\ [][NextFault]_vars

----------------------------------------------------------------------------
(* test_endpoint_connectivity on its own: the session up to the end of the  *)
(* check, the network answering each GET with any status or failure.  The   *)
(* body of the answer is not read.                                          *)

ConnectivityAnswers ==
    {RespOutcome(s, "json") : s \in HttpStatuses}
        \cup {TimeoutOutcome}
        \cup {ErrorOutcome(d) : d \in {"refused", "dns"}}

TestEndpointAny == \E o \in ConnectivityAnswers : TestEndpointWith(o)

NextConnectivity == Start \/ TestEndpointAny \/ SelectActive \/ Tick \/ Signal

SpecConnectivity == Init /\ [][NextConnectivity]_vars

----------------------------------------------------------------------------
(* The round loop with more endpoints than the cap: self.endpoints is cut   *)
(* to its first seven entries, the connectivity check has found any subset  *)
(* of them reachable, but one at least, and the network answers every probe *)
(* at once with HTTP 200.                                                   *)

WideEndpoints == <<1, 2, 3, 4, 5, 6, 7>>

InitCap ==
    \E conn \in [DOMAIN WideEndpoints -> BOOLEAN] :
        /\ \E i \in DOMAIN conn : conn[i]
        /\ pc = "loop"
        /\ running = TRUE
        /\ now = 0
        /\ duration \in 1..MaxDuration
        /\ sample_interval \in SampleIntervals
        /\ start_time = 0
        /\ end_time = duration * MsPerSecond
        /\ connectivity = conn
        /\ active_endpoints = ActiveIn(WideEndpoints, conn)
        /\ tasks = <<>>
        /\ inflight = <<>>
        /\ idx = Len(WideEndpoints) + 1
        /\ responses = <<>>
        /\ log = <<>>
        /\ stats = InitStats
        /\ reports = 0
        /\ summary = NotWritten
        /\ csv = NotWritten
        /\ endpoint_report = NotWritten
        /\ round_base = [responses |-> 0, log |-> 0]
        /\ returned = {}
        /\ probed = [i \in DOMAIN WideEndpoints |->
                        IF conn[i] THEN RespOutcome(200, "json")
                        ELSE ErrorOutcome("refused")]

SettleOk == \E i \in DOMAIN inflight : SettleWith(i, RespOutcome(200, "json"))

NextCap ==
    \/ LoopTest
    \/ CreateTask
    \/ Gather
    \/ SettleOk
    \/ GatherReturn
    \/ Consume
    \/ SleepTest
    \/ Wake
    \/ Signal

SpecCap == InitCap /\ [][NextCap]_vars

----------------------------------------------------------------------------
(* make_sample_request on its own: the first round of a session is in       *)
(* flight, and the network answers each probe with any status, body or      *)
(* failure.                                                                  *)

ProbeOutcomes ==
    {RespOutcome(s, b) : s \in HttpStatuses, b \in {"json", "text", "unreadable"}}
        \cup {TimeoutOutcome}
        \cup {ErrorOutcome(d) : d \in {"refused", "dns"}}

InitProbe ==
    /\ pc = "await"
    /\ running \in BOOLEAN
    /\ now = 0
    /\ duration \in 1..MaxDuration
    /\ sample_interval \in SampleIntervals
    /\ start_time = 0
    /\ end_time = duration * MsPerSecond
    /\ connectivity = [i \in DOMAIN endpoints |-> TRUE]
    /\ active_endpoints = endpoints
    /\ tasks = SampleEndpoints(endpoints)
    /\ inflight = [i \in DOMAIN SampleEndpoints(endpoints) |->
                      Pending(SampleEndpoints(endpoints)[i], 0)]
    /\ idx = Len(SampleEndpoints(endpoints)) + 1
    /\ responses = <<>>
    /\ log = <<>>
    /\ stats = InitStats
    /\ reports = 0
    /\ summary = NotWritten
    /\ csv = NotWritten
    /\ endpoint_report = NotWritten
    /\ round_base = [responses |-> 0, log |-> 0]
    /\ returned = {}
    /\ probed = [i \in DOMAIN endpoints |-> RespOutcome(200, "json")]

SettleAny == \E i \in DOMAIN inflight : \E o \in ProbeOutcomes : SettleWith(i, o)

NextProbe == SettleAny \/ Tick

SpecProbe == InitProbe /\ [][NextProbe]_vars

----------------------------------------------------------------------------
(* generate_reports on its own: a session in which one endpoint was         *)
(* reachable has run n rounds of one probe each, at an interval of one      *)
(* second, and was cancelled during the sleep after its last round; the     *)
(* latencies and outcomes of the probes follow a drawn pattern.             *)

\* largest number of probes drawn
MaxSamples == 22

\* the numbers of probes drawn; from 100 on int(n * 0.99) is below n - 1
SampleSizes == (0..MaxSamples) \cup {100, 101}

\* the latency of probe i in milliseconds: 10 * i for a = 1, b = 0
PatternLatency(i, a, b) == ((a * i + b) % 23) * 10

\* what the network answers to probe i under pattern f
PatternOutcome(i, f) ==
    CASE f = 0 -> RespOutcome(200, "json")
      [] f = 1 -> IF i % 3 = 0 THEN TimeoutOutcome
                  ELSE IF i % 4 = 0 THEN RespOutcome(500, "text")
                  ELSE RespOutcome(200, "json")
      [] OTHER -> IF i % 2 = 0 THEN ErrorOutcome("refused")
                  ELSE IF i % 5 = 0 THEN ErrorOutcome("dns")
                  ELSE RespOutcome(404, "text")

\* the latencies of probes lo..hi, summed
RECURSIVE PatternLatencySum(_, _, _, _)
PatternLatencySum(lo, hi, a, b) ==
    IF lo > hi THEN 0
    ELSE IF lo = hi THEN PatternLatency(lo, a, b)
    ELSE PatternLatencySum(lo, (lo + hi) \div 2, a, b)
            + PatternLatencySum((lo + hi) \div 2 + 1, hi, a, b)

\* the probes of the session, in order: probe i starts when the sleep after
\* probe i - 1 returns
PatternRun(n, a, b, f, ep) ==
    [i \in 1..n |->
        LET t0 == (i - 1) * MsPerSecond + PatternLatencySum(1, i - 1, a, b)
        IN  [endpoint |-> ep, outcome |-> PatternOutcome(i, f),
             t0 |-> t0, t1 |-> t0 + PatternLatency(i, a, b)]]

\* self.stats after probes lo..hi of run have settled in order, from st
RECURSIVE StatsOfRun(_, _, _, _)
StatsOfRun(st, run, lo, hi) ==
    IF lo > hi THEN st
    ELSE IF lo = hi THEN StatsAfter(st, run[lo].outcome, run[lo].t0, run[lo].t1)
    ELSE LET half == StatsOfRun(st, run, lo, (lo + hi) \div 2)
         IN  IF half.total_requests >= 0
             THEN StatsOfRun(half, run, (lo + hi) \div 2 + 1, hi)
             ELSE half

RecordsOfRun(run) ==
    [i \in DOMAIN run |->
        SampleRecord(run[i].endpoint, run[i].outcome, run[i].t0, run[i].t1)]

InitReport ==
    \E n \in SampleSizes, a \in {1, 5}, b \in {0, 7, 11}, f \in 0..2,
       solo \in DOMAIN endpoints :
        LET run == PatternRun(n, a, b, f, endpoints[solo])
            recs == RecordsOfRun(run)
        IN  /\ pc = "report"
            /\ running = FALSE
            /\ now = IF n = 0 THEN 0 ELSE run[n].t1 + MsPerSecond
            /\ duration = 600
            /\ sample_interval = 1
            /\ start_time = 0
            /\ end_time = 600 * MsPerSecond
            /\ connectivity = [i \in DOMAIN endpoints |-> i = solo]
            /\ active_endpoints = <<endpoints[solo]>>
            /\ tasks = IF n = 0 THEN <<>> ELSE <<endpoints[solo]>>
            /\ inflight =
                  IF n = 0 THEN <<>>
                  ELSE <<[endpoint |-> endpoints[solo], request_start |-> run[n].t0,
                          settled |-> TRUE, outcome |-> run[n].outcome,
                          result |-> recs[n]]>>
            /\ idx = IF n = 0 THEN Len(endpoints) + 1 ELSE 2
            /\ responses = recs
            /\ log = [i \in DOMAIN recs |-> LogLine(recs[i])]
            /\ stats = StatsOfRun(InitStats, run, 1, n)
            /\ reports = 0
            /\ summary = NotWritten
            /\ csv = NotWritten
            /\ endpoint_report = NotWritten
            /\ round_base = IF n = 0 THEN [responses |-> 0, log |-> 0]
                            ELSE [responses |-> n - 1, log |-> n - 1]
            /\ returned = {recs[i] : i \in DOMAIN recs}
            /\ probed = [i \in DOMAIN endpoints |->
                            IF i = solo THEN RespOutcome(200, "json")
                            ELSE ErrorOutcome("refused")]

\* generate_reports called once more on the finished session
GenerateReportsAgain ==
    /\ pc = "done"
    /\ reports = 1
    /\ CallGenerateReports
    /\ UNCHANGED <<pc, running, now, config, start_time, end_time,
                   connectivity, active_endpoints, tasks, inflight, idx, log,
                   round_base, returned, probed>>

NextReport == GenerateReports \/ GenerateReportsAgain

SpecReport == InitReport /\ [][NextReport]_vars

----------------------------------------------------------------------------
(* OpenAPIResponseCollector (monitor_http_responses.py): the simpler        *)
(* collector.  It has no connectivity check and no statistics; it probes    *)
(* the first endpoints of its list one after the other, and its summary is  *)
(* computed from self.responses.  Its endpoints are those given on the      *)
(* command line, two here; it has no sample interval.                       *)

\* self.endpoints[:3]
CollectorCap == 3

\* asyncio.sleep(1) after each request
RequestDelay == 1

\* asyncio.sleep(5) after each pass over the endpoints
CycleSleep == 5

CollectorSample == SubSeq(endpoints, 1, Min2(CollectorCap, Len(endpoints)))

\* the value make_request returns: the record of make_sample_request
\* without its method field, built by the same three branches
CollectorRecord(ep, o, t0, t1) == SampleRecord(ep, o, t0, t1)

\* latencies: the latency_ms of the records, those of 0 left out
PositiveLatencies(resps) ==
    LET pos == SelectSeq(resps, LAMBDA r : r.latency_ms > 0)
    IN  [k \in DOMAIN pos |-> pos[k].latency_ms]

\* errors: the number of records with an 'error' key
ErrorCount(resps) == Cardinality({i \in DOMAIN resps : resps[i].has_error})

\* summary of generate_summary (content_type_distribution left out)
CollectorSummary(resps, t_start, dur) ==
    [collection_info |->
        [start_time |-> t_start, duration_seconds |-> dur,
         total_responses |-> Len(resps), endpoints_monitored |-> endpoints],
     status_code_distribution |-> CountCodes(resps),
     latency_statistics |-> LatencyStats(PositiveLatencies(resps)),
     error_count |-> ErrorCount(resps),
     success_rate |->
        IF resps # <<>>
        THEN Ratio((Len(resps) - ErrorCount(resps)) * 100, Len(resps))
        ELSE Ratio(0, 1)]

InitCollector ==
    /\ pc = "c_start"
    /\ running = TRUE
    /\ now = 0
    /\ duration \in 0..MaxDuration
    /\ sample_interval = 0
    /\ start_time = -1
    /\ end_time = -1
    /\ connectivity = <<>>
    /\ active_endpoints = <<>>
    /\ tasks = <<>>
    /\ inflight = <<>>
    /\ idx = 0
    /\ responses = <<>>
    /\ log = <<>>
    /\ stats = InitStats
    /\ reports = 0
    /\ summary = NotWritten
    /\ csv = NotWritten
    /\ endpoint_report = NotWritten
    /\ round_base = [responses |-> 0, log |-> 0]
    /\ returned = {}
    /\ probed = <<>>

\* passive_monitor: self.start_time = time.time(), end_time
CollectorStart ==
    /\ pc = "c_start"
    /\ start_time' = now
    /\ end_time' = now + duration * MsPerSecond
    /\ pc' = "c_loop"
    /\ UNCHANGED <<running, now, config, connectivity, active_endpoints,
                   tasks, inflight, idx, responses, log, stats, outputs,
                   round_base, returned, probed>>

\* the while test of passive_monitor
CollectorLoopTest ==
    /\ pc = "c_loop"
    /\ IF LoopCond(now, end_time, running)
       THEN pc' = "c_for" /\ idx' = 1
       ELSE pc' = "c_summary" /\ UNCHANGED idx
    /\ UNCHANGED <<running, now, config, start_time, end_time,
                   connectivity, active_endpoints, tasks, inflight,
                   responses, log, stats, outputs,
                   round_base, returned, probed>>

\* "for endpoint in self.endpoints[:3]": the next endpoint is requested, or
\* the loop ends (exhausted, or "if not self.running: break")
CollectorFor ==
    /\ pc = "c_for"
    /\ IF idx <= Len(CollectorSample) /\ running
       THEN /\ inflight' = <<Pending(CollectorSample[idx], now)>>
            /\ pc' = "c_request"
       ELSE /\ pc' = "c_cycle"
            /\ UNCHANGED inflight
    /\ UNCHANGED <<running, now, config, start_time, end_time,
                   connectivity, active_endpoints, tasks, idx,
                   responses, log, stats, outputs,
                   round_base, returned, probed>>

\* a second passes while the request is awaited
CollectorTick ==
    /\ pc = "c_request"
    /\ now < MaxTime
    /\ now' = now + MsPerSecond
    /\ UNCHANGED <<pc, running, config, start_time, end_time,
                   connectivity, active_endpoints, tasks, inflight, idx,
                   responses, log, stats, outputs,
                   round_base, returned, probed>>

\* make_request returns, the network having answered o; the record is
\* appended to self.responses and written to the log
CollectorRequestReturns ==
    /\ pc = "c_request"
    /\ \E o \in Outcomes :
          LET r == CollectorRecord(inflight[1].endpoint, o,
                                   inflight[1].request_start, now)
          IN  /\ responses' = Append(responses, r)
              /\ log' = Append(log, LogLine(r))
              /\ returned' = returned \cup {r}
    /\ inflight' = <<>>
    /\ pc' = "c_delay"
    /\ UNCHANGED <<running, now, config, start_time, end_time,
                   connectivity, active_endpoints, tasks, idx,
                   stats, outputs, round_base, probed>>

\* asyncio.sleep(1) returns, and the for-loop goes on
CollectorDelay ==
    /\ pc = "c_delay"
    /\ now' = Min2(now + RequestDelay * MsPerSecond, MaxTime)
    /\ idx' = idx + 1
    /\ pc' = "c_for"
    /\ UNCHANGED <<running, config, start_time, end_time,
                   connectivity, active_endpoints, tasks, inflight,
                   responses, log, stats, outputs,
                   round_base, returned, probed>>

\* "if self.running:" before the sleep between two passes
CollectorCycleTest ==
    /\ pc = "c_cycle"
    /\ pc' = IF running THEN "c_cyclesleep" ELSE "c_loop"
    /\ UNCHANGED <<running, now, config, start_time, end_time,
                   connectivity, active_endpoints, tasks, inflight, idx,
                   responses, log, stats, outputs,
                   round_base, returned, probed>>

\* asyncio.sleep(5) returns
CollectorCycleSleep ==
    /\ pc = "c_cyclesleep"
    /\ now' = Min2(now + CycleSleep * MsPerSecond, MaxTime)
    /\ pc' = "c_loop"
    /\ UNCHANGED <<running, config, start_time, end_time,
                   connectivity, active_endpoints, tasks, inflight, idx,
                   responses, log, stats, outputs,
                   round_base, returned, probed>>

\* generate_summary: "if not self.responses: return", else the summary is
\* written; then passive_monitor returns
CollectorGenerateSummary ==
    /\ pc = "c_summary"
    /\ IF responses = <<>>
       THEN UNCHANGED summary
       ELSE summary' = [written |-> TRUE,
                        doc |-> CollectorSummary(responses, start_time, duration)]
    /\ pc' = "done"
    /\ UNCHANGED <<running, now, config, start_time, end_time,
                   connectivity, active_endpoints, tasks, inflight, idx,
                   responses, log, stats, reports, csv, endpoint_report,
                   round_base, returned, probed>>

NextCollector ==
    \/ CollectorStart
    \/ CollectorLoopTest
    \/ CollectorFor
    \/ CollectorTick
    \/ CollectorRequestReturns
    \/ CollectorDelay
    \/ CollectorCycleTest
    \/ CollectorCycleSleep
    \/ CollectorGenerateSummary
    \/ Signal

SpecCollector == InitCollector /\ [][NextCollector]_vars

----------------------------------------------------------------------------
(* Properties *)

\* the positions inside "async with aiohttp.ClientSession()": the Running state
RunningPcs == {"loop", "dispatch", "gather", "await", "consume", "sleep", "sleeping"}

\* the log is whole lines only: each chunk is one record and its newline
LogWellFormed == \A k \in DOMAIN log : log[k].newline /\ log[k].json.tag = "dict"

\* the records of the log, in order
LogRecords == [k \in DOMAIN log |-> log[k].json]

\* C1: however the session ends (deadline, cancellation, no endpoint
\* reachable), generate_reports has run exactly once when monitor_responses
\* returns, and it never runs twice.
C1_ReportExactlyOnce == reports <= 1 /\ (pc = "done" => reports = 1)

\* C2: with no endpoint reachable the session still writes a summary, with
\* total_responses = 0, an empty status-code histogram, empty latency
\* statistics and no division by zero.
C2_EmptyReport ==
    (pc = "done" /\ active_endpoints = <<>>) =>
        /\ summary.written
        /\ summary.doc.collection_info.total_responses = 0
        /\ DOMAIN summary.doc.status_code_distribution = {}
        /\ DOMAIN summary.doc.latency_statistics = {}
        /\ ~summary.doc.statistics.success_rate_percent.zero_division

\* C3: whenever the stop flag is set while the session is in the Running
\* state, the session eventually leaves the loop and generate_reports runs
\* before monitor_responses returns.
C3_CancelLeadsToReport ==
    (pc \in RunningPcs /\ ~running) ~> (pc = "done" /\ reports = 1)

\* a session cancelled between the creation of the first and the second task
\* of a round, which has ended with its report
C3_Witness ==
    /\ pc = "done"
    /\ reports = 1
    /\ ~running
    /\ Len(tasks) = 1
    /\ Len(active_endpoints) = 2
    /\ Len(responses) >= 1

\* C4: when a round is complete, the records appended to self.responses and
\* to the log in that round are exactly the results of the probes handed to
\* gather in that round, one per probe, whatever their outcomes.
C4_NoSilentDrop ==
    pc \in {"sleep", "sleeping"} =>
        /\ Len(responses) - round_base.responses = Len(tasks)
        /\ Len(log) - round_base.log = Len(tasks)
        /\ \A i \in DOMAIN tasks :
              /\ responses[round_base.responses + i] = inflight[i].result
              /\ log[round_base.log + i].json = inflight[i].result

\* a completed round of two probes, one timed out and one answered
C4_Witness ==
    /\ pc = "sleep"
    /\ Len(tasks) = 2
    /\ \E i, j \in DOMAIN tasks :
          /\ inflight[i].outcome.kind = "timeout"
          /\ inflight[j].outcome.kind = "response"
    /\ Len(responses) - round_base.responses = 2

\* C6: a cancelled session that ends with its report has every record that
\* make_sample_request returned, those of the round in flight when the signal
\* came included, in self.responses, in the log and in the report's count;
\* and the log holds whole newline-terminated records only, at all times.
C6_CancelKeepsRecords ==
    /\ LogWellFormed
    /\ (pc = "done" /\ ~running /\ reports = 1) =>
          /\ {responses[i] : i \in DOMAIN responses} = returned
          /\ Len(responses) = Cardinality(returned)
          /\ LogRecords = responses
          /\ summary.doc.collection_info.total_responses = Cardinality(returned)

\* a session of at least two rounds cancelled while the tasks of its last
\* round were being created
C6_Witness ==
    /\ pc = "done"
    /\ ~running
    /\ reports = 1
    /\ Len(tasks) = 1
    /\ Len(active_endpoints) = 2
    /\ Len(responses) = 3
    /\ Len(log) = 3

\* a step that begins a round
StartsRound == pc = "loop" /\ pc' = "dispatch"

\* a step that ends the consumption of a round's results
EndsRound == pc = "consume" /\ pc' = "sleep"

\* C7: once the deadline has passed or the stop flag is set, no step starts a
\* new round; and a round that began ends only after each of its probes has
\* settled and its record is in self.responses and in the log.
C7_InFlightFinishesNoNewRound ==
    [][/\ (pc \in RunningPcs /\ (now >= end_time \/ ~running)) => ~StartsRound
       /\ EndsRound =>
             \A i \in DOMAIN inflight :
                /\ inflight[i].settled
                /\ responses[round_base.responses + i] = inflight[i].result
                /\ log[round_base.log + i].json = inflight[i].result
      ]_vars

\* the deadline passed while a round of two probes was in flight, and the
\* round has been consumed whole
C7_Witness ==
    /\ pc = "sleep"
    /\ running
    /\ now >= end_time
    /\ Len(tasks) = 2
    /\ inflight[1].request_start < end_time
    /\ Len(responses) - round_base.responses = 2

\* the classification of a record
SuccessRec(r) == ~r.has_error

TimeoutRec(r) == r.has_error /\ r.status_text = "Request Timeout"

ConnErrorRec(r) == r.has_error /\ r.status_text = "Connection Error"

ExactlyOne(a, b, c) == (a /\ ~b /\ ~c) \/ (~a /\ b /\ ~c) \/ (~a /\ ~b /\ c)

\* C5: the record of every settled probe is of exactly one of the classes
\* success, timeout, connection error, the class being the one of what
\* happened to the probe, and its status code is 408 for a timeout, 0 for
\* another failure and the status received otherwise.
C5_ClassificationAndSentinel ==
    \A i \in DOMAIN inflight :
        inflight[i].settled =>
            LET o == inflight[i].outcome
                r == inflight[i].result
            IN  /\ IsDict(r)
                /\ ExactlyOne(SuccessRec(r), TimeoutRec(r), ConnErrorRec(r))
                /\ (o.kind = "response") = SuccessRec(r)
                /\ (o.kind = "timeout") = TimeoutRec(r)
                /\ (o.kind = "error") = ConnErrorRec(r)
                /\ r.status_code = CASE o.kind = "response" -> o.status
                                     [] o.kind = "timeout"  -> 408
                                     [] OTHER               -> 0

\* one probe of the round timed out and its sibling received an HTTP 408
C5_Witness ==
    \E i, j \in DOMAIN inflight :
        /\ inflight[i].settled /\ inflight[i].outcome.kind = "timeout"
        /\ inflight[i].result.status_code = 408
        /\ inflight[j].settled /\ inflight[j].outcome.kind = "response"
        /\ inflight[j].result.status_code = 408
        /\ inflight[i].result.latency_ms > 0

\* the latency statistics of the summary written last
LatStat(k) == summary.doc.latency_statistics[k]

\* C8, as stated: for the latencies [10, 20, 30, 40, 50] the summary gives
\* median = 50, p95 = 50 and p99 = 50.
C8_AsStated ==
    (summary.written /\ stats.response_times = <<10, 20, 30, 40, 50>>) =>
        /\ LatStat("median_ms").value = 50
        /\ LatStat("p95_ms").value = 50
        /\ LatStat("p99_ms").value = 50

\* C8, amended: for the latencies [10, 20, 30, 40, 50] the summary gives
\* median = 30 (the element at index 2), p95 = 50 and p99 = 50 (index 4).
C8_PercentileExample ==
    (summary.written /\ stats.response_times = <<10, 20, 30, 40, 50>>) =>
        /\ DOMAIN summary.doc.latency_statistics = LatencyKeys
        /\ \A k \in LatencyKeys : ~LatStat(k).index_error
        /\ LatStat("median_ms").value = 30
        /\ LatStat("p95_ms").value = 50
        /\ LatStat("p99_ms").value = 50

\* the summary of a session whose latency list is [10, 20, 30, 40, 50]
C8_Witness ==
    /\ pc = "done"
    /\ summary.written
    /\ stats.response_times = <<10, 20, 30, 40, 50>>
    /\ summary.doc.statistics.total_requests = 5

\* v is the element at 0-based index k of times in ascending order
IsAtRank(times, v, k) ==
    /\ Cardinality({i \in DOMAIN times : times[i] < v}) <= k
    /\ k < Cardinality({i \in DOMAIN times : times[i] <= v})

\* C9: for a latency list of n >= 1 entries, s being the list in ascending
\* order, the summary gives min = s[0], max = s[n-1], median = s[n div 2],
\* p95 = s[floor(n*95/100)], p99 = s[floor(n*99/100)]; the three indexes are
\* in 0..n-1 and no lookup fails.
C9_IndexBasedStatistics ==
    (summary.written /\ stats.response_times # <<>>) =>
        LET times == stats.response_times
            n == Len(times)
        IN  /\ DOMAIN summary.doc.latency_statistics = LatencyKeys
            /\ \A k \in LatencyKeys : ~LatStat(k).index_error
            /\ {n \div 2, (n * 95) \div 100, (n * 99) \div 100} \subseteq 0..(n - 1)
            /\ IsAtRank(times, LatStat("min_ms").value, 0)
            /\ IsAtRank(times, LatStat("max_ms").value, n - 1)
            /\ IsAtRank(times, LatStat("median_ms").value, n \div 2)
            /\ IsAtRank(times, LatStat("p95_ms").value, (n * 95) \div 100)
            /\ IsAtRank(times, LatStat("p99_ms").value, (n * 99) \div 100)

\* the summary of 21 latencies, not in ascending order, whose p95 is below
\* their maximum and whose median is above their minimum
C9_Witness ==
    /\ summary.written
    /\ Len(stats.response_times) = 21
    /\ stats.response_times # Sorted(stats.response_times)
    /\ LatStat("p95_ms").value < LatStat("max_ms").value
    /\ LatStat("p99_ms").value = LatStat("max_ms").value
    /\ LatStat("min_ms").value < LatStat("median_ms").value

\* a step in which generate_reports runs
ReportRuns == reports' = reports + 1

CodeCount(d, s) == IF s \in DOMAIN d THEN d[s] ELSE 0

\* probe i settles in this step
Settles(i) == ~inflight[i].settled /\ inflight'[i].settled

\* C11: when a probe settles with an HTTP response of status s, its record
\* carries status code s, the histogram's count of s grows by exactly one and
\* no other count changes, and the probe is counted once, under
\* successful_requests if 200 <= s < 400 and under failed_requests otherwise.
C11_StatusRecordedAndCounted ==
    [][\A i \in DOMAIN inflight :
          (Settles(i) /\ inflight'[i].outcome.kind = "response") =>
              LET s == inflight'[i].outcome.status
                  ok == 200 <= s /\ s < 400
              IN  /\ inflight'[i].result.status_code = s
                  /\ CodeCount(stats'.status_codes, s)
                        = CodeCount(stats.status_codes, s) + 1
                  /\ \A c \in (DOMAIN stats'.status_codes) \ {s} :
                        CodeCount(stats'.status_codes, c)
                            = CodeCount(stats.status_codes, c)
                  /\ stats'.total_requests = stats.total_requests + 1
                  /\ stats'.successful_requests
                        = stats.successful_requests + (IF ok THEN 1 ELSE 0)
                  /\ stats'.failed_requests
                        = stats.failed_requests + (IF ok THEN 0 ELSE 1)
      ]_vars

\* one probe of the round was answered with HTTP 500 and its sibling with a
\* redirection: the 500 is in the record and in the histogram and counts as
\* failed, the 302 counts as successful
C11_Witness ==
    \E i, j \in DOMAIN inflight :
        /\ inflight[i].settled /\ inflight[j].settled
        /\ inflight[i].result.status_code = 500
        /\ inflight[j].result.status_code = 302
        /\ CodeCount(stats.status_codes, 500) = 1
        /\ stats.failed_requests = 1
        /\ stats.successful_requests = 1

\* C12: while a round is in flight, the settling of one probe, whatever its
\* outcome, leaves every sibling as it was (pending siblings stay pending and
\* are not cancelled, settled ones keep their results), no probe is removed,
\* and the joint wait returns only when every probe of the round has settled
\* with a record of its own.
C12_FailureIsolation ==
    [][pc = "await" =>
          /\ Len(inflight') = Len(inflight)
          /\ \A j \in DOMAIN inflight :
                /\ inflight'[j].endpoint = inflight[j].endpoint
                /\ inflight'[j].request_start = inflight[j].request_start
                /\ inflight[j].settled => inflight'[j] = inflight[j]
                /\ (\E i \in (DOMAIN inflight) \ {j} : Settles(i)) =>
                        inflight'[j] = inflight[j]
          /\ pc' # "await" =>
                /\ pc' = "consume"
                /\ \A j \in DOMAIN inflight :
                      inflight[j].settled /\ IsDict(inflight[j].result)
      ]_vars

\* the first probe of a round timed out at once, its sibling was answered a
\* second later, and the joint wait has returned with both
C12_Witness ==
    /\ pc = "consume"
    /\ Len(inflight) = 2
    /\ inflight[1].outcome.kind = "timeout"
    /\ inflight[1].result.latency_ms = 0
    /\ inflight[2].outcome.kind = "response"
    /\ inflight[2].result.latency_ms = MsPerSecond

\* C13: when a probe settles with a timeout or a connection error,
\* make_sample_request returns a record (a dict carrying the error) and
\* raises nothing, total_requests and failed_requests each grow by exactly
\* one, successful_requests stays, and exactly one description, 'timeout' or
\* the failure's text, is appended to the error list.
C13_FailureBecomesRecordCountedOnce ==
    [][\A i \in DOMAIN inflight :
          (Settles(i) /\ inflight'[i].outcome.kind \in {"timeout", "error"}) =>
              LET o == inflight'[i].outcome
                  r == inflight'[i].result
              IN  /\ IsDict(r)
                  /\ r.has_error
                  /\ r.endpoint = inflight[i].endpoint
                  /\ r \in returned'
                  /\ stats'.total_requests = stats.total_requests + 1
                  /\ stats'.failed_requests = stats.failed_requests + 1
                  /\ stats'.successful_requests = stats.successful_requests
                  /\ stats'.errors =
                        Append(stats.errors,
                               IF o.kind = "timeout" THEN "timeout" ELSE o.desc)
                  /\ r.error = IF o.kind = "timeout" THEN "timeout" ELSE o.desc
      ]_vars

\* both probes of a round failed, one by timeout and one by a DNS error: two
\* records, two failed requests, two entries of the error list
C13_Witness ==
    /\ Len(inflight) = 2
    /\ inflight[1].settled /\ inflight[1].outcome.kind = "timeout"
    /\ inflight[2].settled /\ inflight[2].outcome.kind = "error"
    /\ IsDict(inflight[1].result) /\ IsDict(inflight[2].result)
    /\ stats.total_requests = 2
    /\ stats.failed_requests = 2
    /\ ErrorSet(stats.errors) = {"timeout", "dns"}
    /\ Len(stats.errors) = 2

\* a step in which a record reaches self.responses and not the log
WriteFailed == Len(responses') = Len(responses) + 1 /\ log' = log

\* C14: when the log cannot be opened or written for one record, the round
\* goes on with its next record (and so the later rounds and the report
\* follow): the step leaves the session in its for-loop, one record further,
\* and the process never exits on the failure.
C14_PersistenceFailureAbsorbed ==
    [][WriteFailed => (pc' = "consume" /\ idx' = idx + 1 /\ pc' # "exit")]_vars

\* the connectivity check has tested every endpoint and found none reachable
NoneReachable ==
    /\ Len(connectivity) = Len(endpoints)
    /\ \A i \in DOMAIN connectivity : ~connectivity[i]

\* C15: the session is in the Running state (or past it, at its report) only
\* if the connectivity check found an endpoint reachable; when it found none,
\* the session is at the end of the check or has returned, no task was
\* created, no probe was started by make_sample_request, nothing is in
\* self.responses or in the log, and the counters are as __init__ left them.
C15_RunningNeedsReachableEndpoint ==
    /\ pc \in RunningPcs \cup {"report"} =>
          /\ active_endpoints # <<>>
          /\ \E i \in DOMAIN connectivity : connectivity[i]
    /\ NoneReachable =>
          /\ pc \in {"connectivity", "done"}
          /\ tasks = <<>>
          /\ inflight = <<>>
          /\ returned = {}
          /\ responses = <<>>
          /\ log = <<>>
          /\ stats = InitStats

\* a session in which every GET of the connectivity check failed has returned
C15_Witness ==
    /\ pc = "done"
    /\ NoneReachable
    /\ \A i \in DOMAIN probed : probed[i].kind = "error"
    /\ active_endpoints = <<>>

\* the position of an endpoint in self.endpoints
PositionOf(ep) == CHOOSE i \in DOMAIN endpoints : endpoints[i] = ep

\* the connectivity check found ep reachable
FoundReachable(conn, ep) == PositionOf(ep) \in DOMAIN conn /\ conn[PositionOf(ep)]

\* C16: the connectivity mapping is filled once, one endpoint at a time,
\* before any task is created or record collected, and neither it nor the
\* list of active endpoints changes once the session is in the Running state;
\* every endpoint for which a task is created, a probe is in flight or a
\* record was returned is one the check found reachable.
C16_OnlyReachableEndpointsProbed ==
    [][/\ connectivity' # connectivity =>
             /\ pc = "connectivity"
             /\ Len(connectivity) < Len(endpoints)
             /\ SubSeq(connectivity', 1, Len(connectivity)) = connectivity
             /\ Len(connectivity') = Len(connectivity) + 1
             /\ tasks = <<>> /\ inflight = <<>> /\ responses = <<>>
       /\ pc \in RunningPcs =>
             /\ connectivity' = connectivity
             /\ active_endpoints' = active_endpoints
       /\ \A i \in DOMAIN tasks' : FoundReachable(connectivity', tasks'[i])
       /\ \A i \in DOMAIN inflight' :
             FoundReachable(connectivity', inflight'[i].endpoint)
       /\ \A r \in returned' : FoundReachable(connectivity', r.endpoint)
      ]_vars

\* the first endpoint was found unreachable and the second reachable, and two
\* rounds have probed the second endpoint only
C16_Witness ==
    /\ connectivity = <<FALSE, TRUE>>
    /\ Len(responses) >= 2
    /\ \A i \in DOMAIN responses : responses[i].endpoint = endpoints[2]
    /\ pc = "sleep"

\* C17: the connectivity check raises nothing and skips nothing: after each
\* GET, whatever its outcome, the mapping has one boolean entry more and the
\* loop is at the next endpoint; when the check has returned the mapping has
\* exactly one entry per configured endpoint; and an entry is TRUE exactly
\* when the endpoint answered with an HTTP status, of any class, and FALSE
\* when the GET raised (timeout, refused connection, DNS failure).
C17_ConnectivityNeverPropagates ==
    /\ Len(connectivity) = Len(probed)
    /\ Len(connectivity) <= Len(endpoints)
    /\ pc = "connectivity" => idx = Len(connectivity) + 1
    /\ pc \notin {"start", "connectivity"} => Len(connectivity) = Len(endpoints)
    /\ pc # "exit"
    /\ \A i \in DOMAIN connectivity :
          /\ connectivity[i] \in BOOLEAN
          /\ connectivity[i] = (probed[i].kind = "response")

\* the GET of the first endpoint timed out and the check went on to the
\* second, which answered with HTTP 500 and counts as reachable
C17_Witness ==
    /\ pc = "loop"
    /\ probed[1].kind = "timeout"
    /\ connectivity[1] = FALSE
    /\ probed[2].kind = "response" /\ probed[2].status = 500
    /\ connectivity[2] = TRUE
    /\ active_endpoints = <<endpoints[2]>>

\* C18: when generate_reports has run on a session that collected no record
\* and no latency (its endpoints were reachable, and the deadline or the
\* cancellation came before the first probe), the three documents are
\* written and nothing failed: the latency statistics are empty, the success
\* rate is 0 with no division by zero, the status-code table has no rows and
\* the per-endpoint document is empty.
C18_EmptyInputReport ==
    (pc = "done" /\ reports = 1 /\ responses = <<>>
        /\ stats.response_times = <<>>) =>
        /\ summary.written /\ csv.written /\ endpoint_report.written
        /\ summary.doc.collection_info.total_responses = 0
        /\ DOMAIN summary.doc.latency_statistics = {}
        /\ ~summary.doc.statistics.success_rate_percent.zero_division
        /\ summary.doc.statistics.success_rate_percent.num = 0
        /\ DOMAIN summary.doc.status_code_distribution = {}
        /\ summary.doc.error_summary.total_errors = 0
        /\ csv.rows = <<>>
        /\ DOMAIN endpoint_report.doc = {}

\* a session of duration 0 with both endpoints reachable: the deadline has
\* passed at the first test of the loop, and the report was written
C18_Witness ==
    /\ pc = "done"
    /\ reports = 1
    /\ running
    /\ duration = 0
    /\ Len(active_endpoints) = 2
    /\ responses = <<>>
    /\ stats = InitStats
    /\ summary.written

\* the ratio r is the quotient a / b
RatioIs(r, a, b) == ~r.zero_division /\ b # 0 /\ r.num * b = a * r.den

\* C19: the status-code table has one row per status code of the histogram,
\* in ascending order, and the percentage of each row is its count * 100
\* divided by the number of responses collected in the session, those of
\* timeouts and connection errors included (0 when there are none).
C19_PercentageOfAllResponses ==
    csv.written =>
        /\ Len(csv.rows) = Cardinality(DOMAIN stats.status_codes)
        /\ \A i \in DOMAIN csv.rows :
              /\ csv.rows[i].status_code \in DOMAIN stats.status_codes
              /\ csv.rows[i].count = stats.status_codes[csv.rows[i].status_code]
              /\ i > 1 => csv.rows[i - 1].status_code < csv.rows[i].status_code
              /\ IF Len(responses) = 0
                 THEN csv.rows[i].percentage.num = 0
                 ELSE RatioIs(csv.rows[i].percentage,
                              csv.rows[i].count * 100, Len(responses))

\* C20: at all times the counts of the status-code histogram sum to
\* total_requests and the latency list has total_requests entries: every
\* settled probe, one that timed out (408) or failed to connect (0) included,
\* has added its status code and its latency.
C20_HistogramAndLatenciesComplete ==
    /\ SumDict(stats.status_codes) = stats.total_requests
    /\ Len(stats.response_times) = stats.total_requests

\* the latencies of the records that carry no error, in the order of rs
ResponseLatencies(rs) ==
    LET got == SelectSeq(rs, LAMBDA r : ~r.has_error)
    IN  [k \in DOMAIN got |-> got[k].latency_ms]

\* C21: the records are appended to self.responses and to the log in the
\* order in which their probes completed, which is the order in which
\* make_sample_request aggregated them: whenever a round is complete, the
\* latencies of the answered probes stand in self.responses and in the log
\* in the order they have in self.stats['response_times'].
C21_AppendedInCompletionOrder ==
    pc \in {"sleep", "sleeping"} =>
        /\ ResponseLatencies(responses) = stats.response_times
        /\ ResponseLatencies(LogRecords) = stats.response_times

\* stats changes in this step
StatsChange == stats' # stats

\* C22: a call of make_sample_request leaves self.stats as it was (no step
\* in which a probe settles changes the counters, the histogram, the latency
\* list or the error list), and self.stats changes only in the loop that
\* consumes the results after the joint wait.
C22_ExecutorHasNoSideEffect ==
    [][/\ (\E i \in DOMAIN inflight : Settles(i)) => ~StatsChange
       /\ StatsChange => pc = "consume"
      ]_vars

\* C23: a sleep during which the stop flag is found cleared ends at once,
\* without the rest of the interval passing; and no sleep is begun after a
\* round at whose end the deadline has passed.
C23_SleepInterruptible ==
    [][/\ (pc = "sleeping" /\ ~running /\ pc' # "sleeping") => now' = now
       /\ (pc = "sleep" /\ now >= end_time) => pc' # "sleeping"
      ]_vars

\* C24: a round that has begun hands to the joint wait one task for every
\* endpoint of its sample, whether or not the stop flag was cleared while
\* the tasks were being created.
C24_CancelNeverTruncatesRound ==
    pc \in {"gather", "await", "consume"} =>
        tasks = SampleEndpoints(active_endpoints)

\* a step that hands the tasks of a round to the joint wait
DispatchesRound == pc = "gather" /\ pc' = "await"

\* C25: a round begins only when every probe of the round before it has
\* settled, its records are the last ones of self.responses and of the log,
\* and every probe so far is counted in the statistics; when the probes of
\* a round are started, every record in the log is of a probe that began
\* before and has completed; and the records of the log are in the order of
\* the rounds that produced them.
C25_RoundsNeverOverlap ==
    [][/\ StartsRound =>
             /\ AllSettled(inflight)
             /\ Len(responses) = Len(log)
             /\ stats.total_requests = Len(log)
             /\ Len(log) >= Len(inflight)
             /\ \A i \in DOMAIN inflight :
                   log[Len(log) - Len(inflight) + i].json = inflight[i].result
       /\ DispatchesRound =>
             \A k \in DOMAIN log :
                /\ log[k].json.request_start_time < now
                /\ log[k].json.request_start_time + log[k].json.latency_ms <= now
       /\ \A k \in 1..(Len(log') - 1) :
             log'[k].json.request_start_time <= log'[k + 1].json.request_start_time
      ]_vars

\* the second round of a session is in flight: the two records of the first
\* round are in the log and in the statistics
C25_Witness ==
    /\ pc = "await"
    /\ Len(inflight) = 2
    /\ ~inflight[1].settled /\ ~inflight[2].settled
    /\ inflight[1].request_start > 0
    /\ Len(log) = 2
    /\ log[1].json.request_start_time = 0
    /\ stats.total_requests = 2

\* the first min(5, n) of the n active endpoints
FirstFive(active) == SubSeq(active, 1, Min2(5, Len(active)))

\* C26: the tasks of a round are at most 5, no two for the same endpoint,
\* and they are the first endpoints of active_endpoints in its order: all of
\* the first min(5, n) in a round whose dispatch the stop flag did not cut
\* short, the same in every round; every probe in flight and every record
\* returned is for one of these, so an active endpoint at position 6 or
\* later is never probed.
C26_AtMostFivePrefix ==
    /\ Len(tasks) <= 5
    /\ Len(tasks) <= Len(FirstFive(active_endpoints))
    /\ tasks = SubSeq(FirstFive(active_endpoints), 1, Len(tasks))
    /\ \A i, j \in DOMAIN tasks : i # j => tasks[i] # tasks[j]
    /\ (pc \in {"gather", "await", "consume"} /\ running) =>
            tasks = FirstFive(active_endpoints)
    /\ \A i \in DOMAIN inflight :
            \E k \in DOMAIN FirstFive(active_endpoints) :
                active_endpoints[k] = inflight[i].endpoint
    /\ \A r \in returned :
            \E k \in DOMAIN FirstFive(active_endpoints) :
                active_endpoints[k] = r.endpoint

\* seven endpoints are reachable and two whole rounds of five probes have
\* run: the sixth and the seventh endpoint have no record
C26_Witness ==
    /\ pc = "sleep"
    /\ Len(active_endpoints) = 7
    /\ Len(tasks) = 5
    /\ Len(responses) = 10
    /\ {responses[i].endpoint : i \in DOMAIN responses}
            = {active_endpoints[k] : k \in 1..5}

\* the positions between two rounds, and those from the end of the loop on
RoundBoundaryPcs == {"loop", "sleep", "sleeping", "report", "done"}

\* C27: between two rounds, when generate_reports is called and when it has
\* run, total_requests equals the number of records in self.responses, which
\* is the total_responses of the summary, and equals the number of lines
\* appended to the log.
C27_StatsConsistentWithLog ==
    /\ pc \in RoundBoundaryPcs =>
          /\ stats.total_requests = Len(responses)
          /\ stats.total_requests = Len(log)
    /\ (pc = "done" /\ summary.written) =>
          /\ summary.doc.collection_info.total_responses = Len(log)
          /\ summary.doc.statistics.total_requests = Len(log)

\* the report of a session of two rounds with a timeout, a refused
\* connection and an answer among its three probes
C27_Witness ==
    /\ pc = "done"
    /\ summary.written
    /\ Len(log) = 3
    /\ summary.doc.statistics.total_requests = 3
    /\ ErrorSet(stats.errors) = {"timeout", "refused"}
    /\ stats.successful_requests = 1

\* C28: the event loop running its steps and every sleep letting time pass,
\* a session that is in the Running state and is not cancelled starts no
\* round once start_time + duration has passed, and it comes to its end: the
\* loop does not go on forever.
C28_SessionBounded ==
    /\ [][StartsRound => now < end_time]_vars
    /\ (pc \in RunningPcs /\ running) ~> (pc = "done" \/ ~running)

\* a session of the longest duration that was never cancelled has run its
\* rounds until the deadline and has ended with its report
C28_Witness ==
    /\ pc = "done"
    /\ running
    /\ duration = MaxDuration
    /\ now >= end_time
    /\ reports = 1
    /\ Len(responses) >= 2

\* the probes of the round in flight that have settled
SettledProbes == {i \in DOMAIN inflight : inflight[i].settled}

\* C30: in every state, whatever the order in which the probes of a round
\* settle and whatever their outcomes, total_requests is the sum of
\* successful_requests and failed_requests, and it is the number of probes
\* that have settled: each has been counted exactly once.
C30_CountersAddUp ==
    /\ stats.total_requests = stats.successful_requests + stats.failed_requests
    /\ stats.total_requests = Cardinality(SettledProbes)

\* both probes of a round have settled, the second before the first, one
\* with an answer below 400 and one with a connection error
C30_Witness ==
    /\ Len(inflight) = 2
    /\ inflight[1].settled /\ inflight[1].outcome.kind = "error"
    /\ inflight[2].settled /\ inflight[2].outcome.kind = "response"
    /\ inflight[2].result.latency_ms < inflight[1].result.latency_ms
    /\ stats.total_requests = 2
    /\ stats.successful_requests = 1
    /\ stats.failed_requests = 1

\* C29: a session of the simpler collector that has returned with no record
\* collected (cancelled before its first request, or of duration 0) has
\* written its summary, with total_responses = 0.
C29_CollectorEmptySummary ==
    (pc = "done" /\ responses = <<>>) =>
        /\ summary.written
        /\ summary.doc.collection_info.total_responses = 0

\* of the records make_sample_request has returned, those of timeouts and
\* connection errors, and those of HTTP responses with a status outside
\* [200, 400)
FailureRecords == {r \in returned : r.has_error}

BadStatusRecords ==
    {r \in returned :
        ~r.has_error /\ ~(200 <= r.status_code /\ r.status_code < 400)}

\* C31: the error list has one entry per timeout or connection-error record
\* and none for an HTTP response, so failed_requests is the number of its
\* entries plus the number of HTTP responses with a status outside
\* [200, 400); the error summary written by generate_reports gives
\* total_errors as the number of timeout and connection-error records only,
\* and unique_errors, the number of distinct descriptions, is at most
\* total_errors.
C31_ErrorsAreFailuresOnly ==
    /\ Len(stats.errors) = Cardinality(FailureRecords)
    /\ stats.failed_requests = Len(stats.errors) + Cardinality(BadStatusRecords)
    /\ summary.written =>
          LET es == summary.doc.error_summary
          IN  /\ es.total_errors = Cardinality(FailureRecords)
              /\ summary.doc.statistics.failed_requests
                    = es.total_errors + Cardinality(BadStatusRecords)
              /\ es.unique_errors = Cardinality(es.common_errors)
              /\ es.unique_errors <= es.total_errors

\* the report of a session with timeouts and HTTP 500 answers: more failed
\* requests than errors, and fewer distinct errors than errors
C31_Witness ==
    /\ summary.written
    /\ \E i \in DOMAIN responses : responses[i].status_code = 500
    /\ summary.doc.error_summary.total_errors >= 2
    /\ summary.doc.error_summary.unique_errors = 1
    /\ summary.doc.statistics.failed_requests
            > summary.doc.error_summary.total_errors

====
